---------------------------- MODULE Spec2Model ----------------------------
(***************************************************************************)
(* Frame loops of the Nexus engine Python layer:                           *)
(*   - GameApplication.run / shutdown and Scene.update  (nexus_api.py)     *)
(*   - the basic demo loop                              (basic_demo.py)    *)
(*   - Player.update, PlatformerGame.update and main    (platformer_game.py)*)
(* One program runs per behaviour; `program` says which.                    *)
(* Time is counted in ticks of 1/3000 s, so that 1/60 s, 0.016 s and        *)
(* 0.001 s are whole numbers of ticks.                                      *)
(***************************************************************************)
EXTENDS Integers, Sequences, FiniteSets

VARIABLES
    program,          \* which program this behaviour runs
    \* ---- GameApplication (nexus_api.py)
    running,          \* GameApplication.running
    engine_running,   \* what engine.is_running() returns
    current_scene,    \* GameApplication.current_scene: "None" or "scene"
    stack,            \* activations of GameApplication.run, innermost last
    result,           \* outcome of the outermost run(): none/true/false/raised
    engine_shutdowns, \* number of engine.shutdown() calls so far
    runs_started,     \* number of run() calls so far
    runs_entered,     \* number of run() calls that reached the main loop
    \* ---- the basic demo loop and the platformer main loop
    pc,               \* position of the demo / platformer / scene program
    now,              \* the wall clock that time.time() reads, in ticks
    t0,               \* the reading taken before the loop (kept for reference)
    last_time,        \* basic_demo.py: last_time
    clock,            \* platformer_game.py main: clock
    current_time,     \* current_time of the running loop
    delta_time,       \* delta_time of the running loop
    demo_time,        \* basic_demo.py: demo_time
    frame_count,      \* basic_demo.py: frame_count
    game_time,        \* PlatformerGame.game_time
    iteration,        \* number of loop iterations begun
    work,             \* time spent in update and render in this iteration
    slept,            \* argument of the last time.sleep call, -1 before any
    calls,            \* platformer: calls made in this iteration, in order
    player,           \* Player: position, velocity, on_ground
    score,            \* PlatformerGame.score
    respawns,         \* times the "player fell" branch was taken
    \* ---- Scene (nexus_api.py)
    objects,          \* Scene.objects
    active,           \* GameObject.active of every object
    idx,              \* position of the list iterator of Scene.update
    at_start,         \* Scene.objects when the running update call began
    active_at_start,  \* the active flags when the running update call began
    updated           \* the objects whose update was called in this call, in order

appVars == <<running, engine_running, current_scene, stack, result,
             engine_shutdowns, runs_started, runs_entered>>

loopVars == <<pc, now, t0, last_time, clock, current_time, delta_time,
              demo_time, frame_count, game_time, iteration, work, slept,
              calls, player, score, respawns>>

loopVars_but_pc == <<now, t0, last_time, clock, current_time, delta_time,
                     demo_time, frame_count, game_time, iteration, work,
                     slept, calls, player, score, respawns>>

sceneVars == <<objects, active, idx, at_start, active_at_start, updated>>

vars == <<program, appVars, loopVars, sceneVars>>

-----------------------------------------------------------------------------
\* Bounds of the model
MaxIter  == 2   \* iterations of one activation of GameApplication.run
MaxRuns  == 2   \* calls of GameApplication.run in one behaviour
MaxDepth == 2   \* nesting depth of GameApplication.run
MaxDemoFrames == 4   \* iterations of the basic demo loop
MaxPlatFrames == 2   \* iterations of the platformer main loop
MaxObjects == 3      \* length of Scene.objects

\* Units: one tick is 1/3000 s; positions are kept in 1/PosUnit,
\* velocities in 1/TicksPerSecond, so that position += velocity * delta_time
\* is exact.
TicksPerSecond == 60 * 50
PosUnit == TicksPerSecond * TicksPerSecond

-----------------------------------------------------------------------------
\* GameApplication.run

\* What an overridden update/render (or an object's update/render reached
\* through the scene) can do to the application it belongs to.
CallbackEffects == {"none", "stop", "shutdown", "raise", "run"}

\* The four callback sites of one iteration, in program order.
UpdateSites == {"scene_update", "update"}
RenderSites == {"scene_render", "render"}
BodySites   == UpdateSites \cup RenderSites \cup {"sleep"}

\* Variant of NextPc: the scene is updated and rendered before the
\* application's own update runs.
NextPcSceneFirst(at, go) ==
    CASE at = "loop"         -> IF go THEN "scene_update" ELSE "shutdown"
      [] at = "scene_update" -> "scene_render"
      [] at = "scene_render" -> "update"
      [] at = "update"       -> "render"
      [] at = "render"       -> "sleep"
      [] at = "sleep"        -> "loop"

\* Variant of NextPc: the loop is left right after the update callback once
\* the loop condition is false.
NextPcBreakAfterUpdate(at, go) ==
    CASE at = "loop"         -> IF go THEN "scene_update" ELSE "shutdown"
      [] at = "scene_update" -> "update"
      [] at = "update"       -> IF go THEN "scene_render" ELSE "shutdown"
      [] at = "scene_render" -> "render"
      [] at = "render"       -> "sleep"
      [] at = "sleep"        -> "loop"

\* Control flow of the loop in run(): the while condition is read at "loop"
\* only; the body is straight-line code.
NextPc(at, go) ==
    CASE at = "loop"         -> IF go THEN "scene_update" ELSE "shutdown"
      [] at = "scene_update" -> "update"
      [] at = "update"       -> "scene_render"
      [] at = "scene_render" -> "render"
      [] at = "render"       -> "sleep"
      [] at = "sleep"        -> "loop"

\* while self.engine.is_running() and self.running
LoopCondition == engine_running /\ running

NewFrame == [pc |-> "entry", k |-> 0, calls |-> <<>>, in_call |-> FALSE,
             stop_k |-> 0, stop_site |-> "none"]

Top == stack[Len(stack)]

SetTop(s, f) == [s EXCEPT ![Len(s)] = f]

\* Ghost: remember, in every activation that is inside an iteration, the
\* iteration and the place at which a stop was first requested.
MarkStop(s) ==
    [i \in DOMAIN s |->
        IF s[i].pc \in BodySites /\ s[i].stop_k = 0
        THEN [s[i] EXCEPT !.stop_k = s[i].k, !.stop_site = s[i].pc]
        ELSE s[i]]

\* The innermost activation returns; the callback that called it returns in
\* turn and its activation goes on after the callback site.
Return(s, go) ==
    LET rest == SubSeq(s, 1, Len(s) - 1)
    IN  IF rest = <<>> THEN rest
        ELSE SetTop(rest, [rest[Len(rest)] EXCEPT
                 !.in_call = FALSE,
                 !.pc = NextPc(rest[Len(rest)].pc, go)])

\* GameApplication.__init__ (lines 61-67)
AppFresh ==
    /\ running = FALSE
    /\ engine_running = FALSE
    /\ current_scene = "None"
    /\ stack = <<>>
    /\ result = "none"
    /\ engine_shutdowns = 0
    /\ runs_started = 0
    /\ runs_entered = 0

\* game.set_scene(scene), between runs
SetScene(s) ==
    /\ program = "app"
    /\ stack = <<>>
    /\ current_scene # s
    /\ current_scene' = s
    /\ UNCHANGED <<program, loopVars, sceneVars, running, engine_running, stack, result,
                   engine_shutdowns, runs_started, runs_entered>>

\* game.run() called by the program
CallRun ==
    /\ program = "app"
    /\ stack = <<>>
    /\ runs_started < MaxRuns
    /\ stack' = <<NewFrame>>
    /\ result' = "none"
    /\ runs_started' = runs_started + 1
    /\ UNCHANGED <<program, loopVars, sceneVars, running, engine_running, current_scene,
                   engine_shutdowns, runs_entered>>

\* run(), lines 86-90: initialize unless already running.  initialize()
\* (lines 69-82) sets running and returns True, or raises RuntimeError when
\* the engine fails to initialize; an override may return False.  An engine
\* that has been initialized answers is_running() with True until it stops.
RunEntry(init) ==
    /\ program = "app"
    /\ stack # <<>>
    /\ Top.pc = "entry"
    /\ IF running
       THEN /\ init = "ok"
            /\ stack' = SetTop(stack, [Top EXCEPT !.pc = "loop"])
            /\ runs_entered' = runs_entered + 1
            /\ UNCHANGED <<running, engine_running, result>>
       ELSE CASE init = "ok" ->
                 /\ running' = TRUE
                 /\ engine_running' = TRUE
                 /\ stack' = SetTop(stack, [Top EXCEPT !.pc = "loop"])
                 /\ runs_entered' = runs_entered + 1
                 /\ UNCHANGED result
              [] init = "raise" ->
                 /\ stack' = <<>>
                 /\ result' = "raised"
                 /\ UNCHANGED <<running, engine_running, runs_entered>>
              [] init = "false" ->
                 /\ stack' = Return(stack, LoopCondition)
                 /\ result' = IF Len(stack) = 1 THEN "false" ELSE result
                 /\ UNCHANGED <<running, engine_running, runs_entered>>
    /\ UNCHANGED <<program, loopVars, sceneVars, current_scene, engine_shutdowns, runs_started>>

\* line 93: the while condition
LoopCheck ==
    /\ program = "app"
    /\ stack # <<>>
    /\ Top.pc = "loop"
    /\ LoopCondition => Top.k < MaxIter
    /\ stack' = SetTop(stack, [Top EXCEPT
                          !.pc = NextPc("loop", LoopCondition),
                          !.k = IF LoopCondition THEN @ + 1 ELSE @,
                          !.calls = IF LoopCondition THEN <<>> ELSE @])
    /\ UNCHANGED <<program, loopVars, sceneVars, running, engine_running, current_scene, result,
                   engine_shutdowns, runs_started, runs_entered>>

\* lines 97-109: one of the four callback sites.  A scene site is passed
\* over when there is no current scene.
Callback(effect) ==
    /\ program = "app"
    /\ stack # <<>>
    /\ Top.pc \in UpdateSites \cup RenderSites
    /\ LET site == Top.pc
           skipped == site \in {"scene_update", "scene_render"}
                      /\ current_scene = "None"
           called(f) == [f EXCEPT !.calls = Append(@, site)]
           done(f, go) == [f EXCEPT !.pc = NextPc(site, go)]
       IN  IF skipped
           THEN /\ effect = "none"
                /\ stack' = SetTop(stack, done(Top, LoopCondition))
                /\ UNCHANGED <<running, engine_running, result,
                               engine_shutdowns, runs_started>>
           ELSE CASE effect = "none" ->
                     /\ stack' = SetTop(stack, done(called(Top), LoopCondition))
                     /\ UNCHANGED <<running, engine_running, result,
                                    engine_shutdowns, runs_started>>
                  [] effect = "stop" ->
                     \* self.running = False
                     /\ running' = FALSE
                     /\ stack' = LET m == MarkStop(stack)
                                 IN  SetTop(m, done(called(m[Len(m)]), FALSE))
                     /\ UNCHANGED <<engine_running, result,
                                    engine_shutdowns, runs_started>>
                  [] effect = "shutdown" ->
                     \* self.shutdown()
                     /\ running' = FALSE
                     /\ engine_running' = FALSE
                     /\ engine_shutdowns' = engine_shutdowns + 1
                     /\ stack' = LET m == MarkStop(stack)
                                 IN  SetTop(m, done(called(m[Len(m)]), FALSE))
                     /\ UNCHANGED <<result, runs_started>>
                  [] effect = "raise" ->
                     \* the exception leaves every activation of run()
                     /\ stack' = <<>>
                     /\ result' = "raised"
                     /\ UNCHANGED <<running, engine_running,
                                    engine_shutdowns, runs_started>>
                  [] effect = "run" ->
                     \* self.run() from inside the callback
                     /\ runs_started < MaxRuns
                     /\ Len(stack) < MaxDepth
                     /\ stack' = Append(SetTop(stack,
                                   [called(Top) EXCEPT !.in_call = TRUE]),
                                   NewFrame)
                     /\ runs_started' = runs_started + 1
                     /\ UNCHANGED <<running, engine_running, result,
                                    engine_shutdowns>>
    /\ UNCHANGED <<program, loopVars, sceneVars, current_scene, runs_entered>>

\* line 112: time.sleep(0.001)
Sleep ==
    /\ program = "app"
    /\ stack # <<>>
    /\ Top.pc = "sleep"
    /\ stack' = SetTop(stack, [Top EXCEPT !.pc = NextPc("sleep", LoopCondition)])
    /\ UNCHANGED <<program, loopVars, sceneVars, running, engine_running, current_scene, result,
                   engine_shutdowns, runs_started, runs_entered>>

\* lines 114-115 with shutdown() (117-121): self.shutdown(); return True.
\* An engine that has been shut down answers is_running() with False.
ShutdownAndReturn ==
    /\ program = "app"
    /\ stack # <<>>
    /\ Top.pc = "shutdown"
    /\ running' = FALSE
    /\ engine_running' = FALSE
    /\ engine_shutdowns' = engine_shutdowns + 1
    /\ stack' = Return(MarkStop(stack), FALSE)
    /\ result' = IF Len(stack) = 1 THEN "true" ELSE result
    /\ UNCHANGED <<program, loopVars, sceneVars, current_scene, runs_started, runs_entered>>

\* The engine stops running (window closed, ESC) while run() is active.
EngineQuit ==
    /\ program = "app"
    /\ stack # <<>>
    /\ engine_running
    /\ engine_running' = FALSE
    /\ stack' = MarkStop(stack)
    /\ UNCHANGED <<program, loopVars, sceneVars, running, current_scene, result,
                   engine_shutdowns, runs_started, runs_entered>>

NextApp ==
    \/ \E s \in {"None", "scene"} : SetScene(s)
    \/ CallRun
    \/ \E init \in {"ok", "raise", "false"} : RunEntry(init)
    \/ LoopCheck
    \/ \E effect \in CallbackEffects : Callback(effect)
    \/ Sleep
    \/ ShutdownAndReturn
    \/ EngineQuit

-----------------------------------------------------------------------------
\* State of the loop programs before they start

PlayerFresh == [x |-> 0, y |-> 0, vx |-> 0, vy |-> 0, on_ground |-> FALSE]

LoopFresh ==
    /\ pc = "start"
    /\ now = 0
    /\ t0 = 0
    /\ last_time = 0
    /\ clock = 0
    /\ current_time = 0
    /\ delta_time = 0
    /\ demo_time = 0
    /\ frame_count = 0
    /\ game_time = 0
    /\ iteration = 0
    /\ work = 0
    /\ slept = -1
    /\ calls = <<>>
    /\ player = PlayerFresh
    /\ score = 0
    /\ respawns = 0

Objs == 1 .. MaxObjects

\* Scene.__init__ (lines 33-35)
SceneFresh ==
    /\ objects = <<>>
    /\ active = [o \in Objs |-> TRUE]
    /\ idx = 0
    /\ at_start = <<>>
    /\ active_at_start = [o \in Objs |-> TRUE]
    /\ updated = <<>>

InitApp ==
    /\ program = "app"
    /\ AppFresh
    /\ LoopFresh
    /\ SceneFresh

-----------------------------------------------------------------------------
\* basic_demo.py: the demo loop

DemoSleep    == (16 * TicksPerSecond) \div 1000   \* time.sleep(0.016)
DemoDuration == 30 * TicksPerSecond               \* demo_time > 30.0

\* Time that passes, on the wall clock, between two statements that the
\* program does not account for: the clock is set back, nothing measurable,
\* or the process is held up so that the frame takes ten seconds in all.
DemoStall      == 10 * TicksPerSecond - DemoSleep
DemoClockSteps == {-DemoSleep, 0, DemoStall}

InitDemo ==
    /\ program = "demo"
    /\ AppFresh
    /\ LoopFresh
    /\ SceneFresh

\* lines 24, 43-44
DemoStart ==
    /\ program = "demo"
    /\ pc = "start"
    /\ demo_time' = 0
    /\ last_time' = now
    /\ t0' = now
    /\ frame_count' = 0
    /\ pc' = "read"
    /\ UNCHANGED <<program, appVars, sceneVars, now, clock, current_time,
                   delta_time, game_time, iteration, work, slept, calls,
                   player, score, respawns>>

\* Variant of DemoDelta: operands the wrong way round.
DemoDeltaReversed(cur, last) == last - cur

\* lines 47-52 (lines 55-66 compute display values and print; they change
\* nothing the loop reads)
DemoDelta(cur, last) == cur - last

DemoFrame(e) ==
    /\ program = "demo"
    /\ pc = "read"
    /\ iteration < MaxDemoFrames
    /\ now' = now + e
    /\ current_time' = now'
    /\ delta_time' = DemoDelta(current_time', last_time)
    /\ last_time' = current_time'
    /\ demo_time' = demo_time + delta_time'
    /\ frame_count' = frame_count + 1
    /\ iteration' = iteration + 1
    /\ pc' = "check"
    /\ UNCHANGED <<program, appVars, sceneVars, t0, clock, game_time, work,
                   slept, calls, player, score, respawns>>

\* Variant of DemoCompleted: the demo ends as soon as 30 s are reached.
DemoCompletedAtDuration(t) == t >= DemoDuration

\* lines 69-71
DemoCompleted(t) == t > DemoDuration

DemoExitCheck ==
    /\ program = "demo"
    /\ pc = "check"
    /\ pc' = IF DemoCompleted(demo_time) THEN "done" ELSE "sleep"
    /\ UNCHANGED <<program, appVars, sceneVars, now, t0, last_time, clock,
                   current_time, delta_time, demo_time, frame_count,
                   game_time, iteration, work, slept, calls, player, score,
                   respawns>>

\* line 74
DemoPace ==
    /\ program = "demo"
    /\ pc = "sleep"
    /\ slept' = DemoSleep
    /\ now' = now + DemoSleep
    /\ pc' = "read"
    /\ UNCHANGED <<program, appVars, sceneVars, t0, last_time, clock,
                   current_time, delta_time, demo_time, frame_count,
                   game_time, iteration, work, calls, player, score,
                   respawns>>

NextDemo ==
    \/ DemoStart
    \/ \E e \in DemoClockSteps : DemoFrame(e)
    \/ DemoExitCheck
    \/ DemoPace

-----------------------------------------------------------------------------
\* platformer_game.py: Player.update, PlatformerGame.update, main

TargetFrame == TicksPerSecond \div 60   \* 1/60 in time.sleep(max(0, 1/60 - delta_time))
Gravity   == 25   \* self.velocity.y -= 25.0 * delta_time
Speed     == 8    \* Player.speed
JumpForce == 12   \* Player.jump_force
FallLimit == -10  \* if self.player.position.y < -10
FrictionNum == 4  \* self.velocity.x *= 0.8, as 4/5
FrictionDen == 5

\* Unaccounted time between two clock readings: the clock is set back, nothing
\* measurable, one frame time, or the process is held up for half a second.
PlatStall      == TicksPerSecond \div 2
PlatClockSteps == {-TargetFrame, 0, TargetFrame, PlatStall}

\* Time that update and render take together in one iteration.
WorkTimes == {0, TargetFrame}

\* What the input manager reports in one frame.
MoveKeys == {"A", "D", "none"}

Max(a, b) == IF a >= b THEN a ELSE b

\* integer part, rounding towards zero as float multiplication and int() do
TruncDiv(a, b) == IF a >= 0 THEN a \div b ELSE -((-a) \div b)

\* Variant of GroundCollision: a player exactly at height 0 is not grounded.
GroundCollisionStrict(p) ==
    IF p.y < 0 THEN [p EXCEPT !.y = 0, !.vy = 0, !.on_ground = TRUE] ELSE p

\* the ground collision of Player.update, lines 41-44
GroundCollision(p) ==
    IF p.y <= 0 THEN [p EXCEPT !.y = 0, !.vy = 0, !.on_ground = TRUE] ELSE p

\* Player.update, lines 19-44
PlayerUpdate(p, dt, move, space) ==
    LET vx1 == CASE move = "A" -> -(Speed * TicksPerSecond)
                 [] move = "D" -> Speed * TicksPerSecond
                 [] OTHER      -> TruncDiv(p.vx * FrictionNum, FrictionDen)
        jump == space /\ p.on_ground
        vy1  == IF jump THEN JumpForce * TicksPerSecond ELSE p.vy
        og1  == IF jump THEN FALSE ELSE p.on_ground
        vy2  == vy1 - Gravity * dt
        moved == [x |-> p.x + vx1 * dt, y |-> p.y + vy2 * dt,
                  vx |-> vx1, vy |-> vy2, on_ground |-> og1]
    IN  GroundCollision(moved)

\* max(0, int(self.player.position.y * 10))
HeightScore(p) == Max(0, TruncDiv(p.y * 10, PosUnit))

\* the "player fell" test of PlatformerGame.update, line 94
PlayerFell(p) == p.y < FallLimit * PosUnit

\* the argument of time.sleep, line 165
PaceDelay(dt) == Max(0, TargetFrame - dt)

InitPlatformer ==
    /\ program = "platformer"
    /\ AppFresh
    /\ LoopFresh
    /\ SceneFresh

\* main, lines 132-145: initialize the engine, create the game, read the clock
PlatStart(ok) ==
    /\ program = "platformer"
    /\ pc = "start"
    /\ IF ok
       THEN /\ engine_running' = TRUE
            /\ player' = PlayerFresh
            /\ score' = 0
            /\ game_time' = 0
            /\ clock' = now
            /\ t0' = now
            /\ pc' = "loop"
       ELSE /\ pc' = "done"
            /\ UNCHANGED <<engine_running, player, score, game_time, clock, t0>>
    /\ UNCHANGED <<program, sceneVars, running, current_scene, stack, result,
                   engine_shutdowns, runs_started, runs_entered, now,
                   last_time, current_time, delta_time, demo_time,
                   frame_count, iteration, work, slept, calls, respawns>>

\* line 148: while game_engine.is_running(); r is what the engine answers
PlatLoopCheck(r) ==
    /\ program = "platformer"
    /\ pc = "loop"
    /\ r => iteration < MaxPlatFrames
    /\ engine_running' = r
    /\ pc' = IF r THEN "read" ELSE "cleanup"
    /\ UNCHANGED <<program, loopVars_but_pc, sceneVars, running, current_scene,
                   stack, result, engine_shutdowns, runs_started, runs_entered>>

\* lines 150-152
PlatDelta(cur, last) == cur - last

PlatRead(e) ==
    /\ program = "platformer"
    /\ pc = "read"
    /\ now' = now + e
    /\ current_time' = now'
    /\ delta_time' = PlatDelta(current_time', clock)
    /\ clock' = current_time'
    /\ iteration' = iteration + 1
    /\ calls' = <<>>
    /\ work' = 0
    /\ pc' = "update"
    /\ UNCHANGED <<program, appVars, sceneVars, t0, last_time, demo_time,
                   frame_count, game_time, slept, player, score, respawns>>

\* line 155 with PlatformerGame.update, lines 80-96
PlatUpdate(move, space) ==
    /\ program = "platformer"
    /\ pc = "update"
    /\ game_time' = game_time + delta_time
    /\ LET p == PlayerUpdate(player, delta_time, move, space)
       IN  /\ score' = Max(score, HeightScore(p))
           /\ IF PlayerFell(p)
              THEN /\ player' = [p EXCEPT !.x = 0, !.y = 0, !.vx = 0, !.vy = 0]
                   /\ respawns' = respawns + 1
              ELSE /\ player' = p
                   /\ UNCHANGED respawns
    /\ calls' = Append(calls, "update")
    /\ pc' = "render"
    /\ UNCHANGED <<program, appVars, sceneVars, now, t0, last_time, clock,
                   current_time, delta_time, demo_time, frame_count,
                   iteration, work, slept>>

\* lines 158-162; w is the time update and render took
PlatRender(w) ==
    /\ program = "platformer"
    /\ pc = "render"
    /\ calls' = calls \o <<"begin_frame", "render", "end_frame", "present">>
    /\ work' = w
    /\ now' = now + w
    /\ pc' = "sleep"
    /\ UNCHANGED <<program, appVars, sceneVars, t0, last_time, clock,
                   current_time, delta_time, demo_time, frame_count,
                   game_time, iteration, slept, player, score, respawns>>

\* line 165
PlatPace ==
    /\ program = "platformer"
    /\ pc = "sleep"
    /\ slept' = PaceDelay(delta_time)
    /\ now' = now + slept'
    /\ pc' = "loop"
    /\ UNCHANGED <<program, appVars, sceneVars, t0, last_time, clock,
                   current_time, delta_time, demo_time, frame_count,
                   game_time, iteration, work, calls, player, score,
                   respawns>>

\* lines 167-168: KeyboardInterrupt anywhere inside the try block
PlatInterrupt ==
    /\ program = "platformer"
    /\ pc \in {"loop", "read", "update", "render", "sleep"}
    /\ pc' = "cleanup"
    /\ UNCHANGED <<program, appVars, sceneVars, now, t0, last_time, clock,
                   current_time, delta_time, demo_time, frame_count,
                   game_time, iteration, work, slept, calls, player, score,
                   respawns>>

\* line 171: game_engine.shutdown()
PlatCleanup ==
    /\ program = "platformer"
    /\ pc = "cleanup"
    /\ engine_shutdowns' = engine_shutdowns + 1
    /\ engine_running' = FALSE
    /\ pc' = "done"
    /\ UNCHANGED <<program, sceneVars, running, current_scene, stack, result,
                   runs_started, runs_entered, now, t0, last_time, clock,
                   current_time, delta_time, demo_time, frame_count,
                   game_time, iteration, work, slept, calls, player, score,
                   respawns>>

NextPlatformer ==
    \/ \E ok \in BOOLEAN : PlatStart(ok)
    \/ \E r \in BOOLEAN : PlatLoopCheck(r)
    \/ \E e \in PlatClockSteps : PlatRead(e)
    \/ \E move \in MoveKeys, space \in BOOLEAN : PlatUpdate(move, space)
    \/ \E w \in WorkTimes : PlatRender(w)
    \/ PlatPace
    \/ PlatInterrupt
    \/ PlatCleanup

-----------------------------------------------------------------------------
\* nexus_api.py: Scene

InitScene ==
    /\ program = "scene"
    /\ AppFresh
    /\ LoopFresh
    /\ SceneFresh

Contains(list, o) == \E i \in DOMAIN list : list[i] = o

\* list.remove: drops the first occurrence
RemoveFirst(list, o) ==
    LET i == CHOOSE j \in DOMAIN list :
                 list[j] = o /\ \A h \in 1 .. (j - 1) : list[h] # o
    IN  SubSeq(list, 1, i - 1) \o SubSeq(list, i + 1, Len(list))

\* Scene.add_object, lines 37-39
add_object(list, o) == Append(list, o)

\* Scene.remove_object, lines 41-44
remove_object(list, o) == IF Contains(list, o) THEN RemoveFirst(list, o) ELSE list

\* scene.add_object(obj) called by the program, outside update
AddObject(o) ==
    /\ program = "scene"
    /\ pc = "start"
    /\ Len(objects) < MaxObjects
    /\ objects' = add_object(objects, o)
    /\ UNCHANGED <<program, appVars, loopVars, active, idx, at_start,
                   active_at_start, updated>>

\* scene.remove_object(obj) called by the program, outside update
RemoveObject(o) ==
    /\ program = "scene"
    /\ pc = "start"
    /\ objects' = remove_object(objects, o)
    /\ objects' # objects
    /\ UNCHANGED <<program, appVars, loopVars, active, idx, at_start,
                   active_at_start, updated>>

\* obj.active = b set by the program, outside update
SetActive(o, b) ==
    /\ program = "scene"
    /\ pc = "start"
    /\ active[o] # b
    /\ active' = [active EXCEPT ![o] = b]
    /\ UNCHANGED <<program, appVars, loopVars, objects, idx, at_start,
                   active_at_start, updated>>

\* Scene.update is called: line 48 creates the list iterator
BeginUpdate ==
    /\ program = "scene"
    /\ pc = "start"
    /\ pc' = "iterating"
    /\ idx' = 0
    /\ at_start' = objects
    /\ active_at_start' = active
    /\ updated' = <<>>
    /\ UNCHANGED <<program, appVars, loopVars_but_pc, objects, active>>

\* What one object's update method does to the scene it is in.
ObjectEffects ==
    {[op |-> "none", obj |-> 1]}
    \cup {[op |-> "add", obj |-> o] : o \in Objs}
    \cup {[op |-> "remove", obj |-> o] : o \in Objs}

\* The list iterator: the next entry is the one at position idx of the list
\* as it is now; the loop ends when idx is past the end of the list as it is
\* now.
IteratorDone(list, i) == i >= Len(list)

\* lines 48-50: one turn of the for loop
UpdateStep(eff) ==
    /\ program = "scene"
    /\ pc = "iterating"
    /\ ~IteratorDone(objects, idx)
    /\ LET obj == objects[idx + 1]
       IN  /\ idx' = idx + 1
           /\ IF active[obj]
              THEN /\ updated' = Append(updated, obj)
                   /\ CASE eff.op = "none" -> UNCHANGED objects
                        [] eff.op = "add" ->
                             /\ Len(objects) < MaxObjects
                             /\ objects' = add_object(objects, eff.obj)
                        [] eff.op = "remove" ->
                             /\ Contains(objects, eff.obj)
                             /\ objects' = remove_object(objects, eff.obj)
              ELSE /\ eff.op = "none"
                   /\ UNCHANGED <<updated, objects>>
    /\ UNCHANGED <<program, appVars, loopVars, active, at_start,
                   active_at_start>>

\* the for loop ends and Scene.update returns
EndUpdate ==
    /\ program = "scene"
    /\ pc = "iterating"
    /\ IteratorDone(objects, idx)
    /\ pc' = "updated"
    /\ UNCHANGED <<program, appVars, loopVars_but_pc, sceneVars>>

\* back in the program, which may change the scene and update it again
AfterUpdate ==
    /\ program = "scene"
    /\ pc = "updated"
    /\ pc' = "start"
    /\ idx' = 0
    /\ at_start' = <<>>
    /\ active_at_start' = [o \in Objs |-> TRUE]
    /\ updated' = <<>>
    /\ UNCHANGED <<program, appVars, loopVars_but_pc, objects, active>>

NextScene ==
    \/ \E o \in Objs : AddObject(o)
    \/ \E o \in Objs : RemoveObject(o)
    \/ \E o \in Objs, b \in BOOLEAN : SetActive(o, b)
    \/ BeginUpdate
    \/ \E eff \in ObjectEffects : UpdateStep(eff)
    \/ EndUpdate
    \/ AfterUpdate

-----------------------------------------------------------------------------
\* The programs together

Init == InitApp \/ InitDemo \/ InitPlatformer \/ InitScene
Next == NextApp \/ NextDemo \/ NextPlatformer \/ NextScene
Spec == Init /\ [][Next]_vars

-----------------------------------------------------------------------------
\* Properties

InLoop == program \in {"demo", "platformer"}

RenderCalls == RenderSites \cup {"begin_frame", "end_frame", "present"}

\* In a log of one iteration's calls, every update call comes before every
\* render call, and nothing is rendered unless update was called.
UpdatesFirst(log) ==
    /\ \A i, j \in DOMAIN log :
          log[i] \in UpdateSites /\ log[j] \in RenderCalls => i < j
    /\ (\E j \in DOMAIN log : log[j] \in RenderCalls)
          => \E i \in DOMAIN log : log[i] = "update"

\* C1: in every iteration of GameApplication.run and of the platformer main
\* loop, all update calls of the iteration are made before any of its render
\* calls, and no render call is made in an iteration that has not updated.
UpdateBeforeRender ==
    /\ \A f \in DOMAIN stack : UpdatesFirst(stack[f].calls)
    /\ UpdatesFirst(calls)

\* C1 witness: a second iteration of run() has made its four calls.
UpdateBeforeRenderWitness ==
    /\ program = "app"
    /\ stack # <<>>
    /\ Top.k = 2
    /\ Top.calls = <<"scene_update", "update", "scene_render", "render">>

\* The calls of one complete iteration of run().
FullIteration ==
    IF current_scene = "None"
    THEN <<"update", "render">>
    ELSE <<"scene_update", "update", "scene_render", "render">>

\* C2: a stop requested during iteration k of run() (the running flag
\* cleared, or is_running() turned false, while the iteration's callbacks
\* execute) does not cut the iteration short: an activation is at the
\* iteration boundary or past the loop only with all calls of its last
\* iteration made, and it starts no iteration after the one in which the stop
\* was requested.
StopCompletesIteration ==
    \A f \in DOMAIN stack :
        /\ stack[f].k >= 1 /\ stack[f].pc \in {"sleep", "loop", "shutdown"}
              => stack[f].calls = FullIteration
        /\ stack[f].stop_k # 0 => stack[f].k = stack[f].stop_k

\* C2 witness: run() has left its loop after a second iteration in which the
\* stop was requested at the first callback.
StopCompletesIterationWitness ==
    /\ program = "app"
    /\ stack # <<>>
    /\ Top.pc = "shutdown"
    /\ Top.k = 2
    /\ Top.stop_k = 2
    /\ Top.stop_site = "scene_update"
    /\ running = FALSE

\* C3: run() invoked while a loop of the same instance is executing fails at
\* once: no activation of run() other than the outermost executes an
\* iteration.
NoSecondLoop ==
    \A f \in DOMAIN stack : f > 1 => stack[f].k = 0

\* C9: every run() that entered the main loop has, once no run() is active
\* any more, had engine.shutdown() invoked exactly once for it.
ShutdownExactlyOnce ==
    program = "app" /\ stack = <<>> => engine_shutdowns = runs_entered

\* C4 as stated: the demo loop goes on to its pacing sleep only while
\* demo_time is below 30 s; with demo_time = 30 s exactly it has terminated.
DemoEndsAtDuration ==
    program = "demo" /\ pc = "sleep" => demo_time < DemoDuration

\* C4 amended: the demo loop terminates on the first iteration at whose end
\* demo_time > 30 s (strictly): it is done only with demo_time > 30 s, and
\* it sleeps and reads the clock again only with demo_time <= 30 s.
DemoEndsPastDuration ==
    program = "demo" =>
        /\ pc = "done" => demo_time > DemoDuration
        /\ pc \in {"sleep", "read"} => demo_time <= DemoDuration

\* C4 witness: the demo has terminated, after more than one iteration.
DemoEndsPastDurationWitness ==
    program = "demo" /\ pc = "done" /\ iteration > 1

TimeNeverGoesBack ==
    [][delta_time' >= 0 /\ demo_time' >= demo_time /\ game_time' >= game_time]_vars

\* C7: the pacing delay of an iteration of the platformer loop is
\* max(0, 1/60 s - time spent in the iteration's update and render); with
\* callbacks that take no time it is the full 1/60 s (stated here for
\* iterations whose delta_time is not negative, which is the weaker
\* statement).
PacingDelayIsRemainder ==
    program = "platformer" /\ pc = "loop" /\ iteration >= 1 /\ delta_time >= 0
        => slept = Max(0, TargetFrame - work)

NoRepeats(list) ==
    \A i, j \in DOMAIN list : list[i] = list[j] => i = j

\* C8: when Scene.update returns, the objects of the list at the start of the
\* call that were active have each been updated once, in list order, and no
\* other object of that list has been updated (stated here for lists that
\* held no object twice when the call started).
UpdatesAllActive ==
    program = "scene" /\ pc = "updated" /\ NoRepeats(at_start) =>
        SelectSeq(updated, LAMBDA o : Contains(at_start, o))
            = SelectSeq(at_start, LAMBDA o : active_at_start[o])

\* C10: the player is never below the ground: position.y >= 0, at height 0
\* the vertical velocity is 0 and (once updated) the player is on the ground,
\* and the "player fell" branch is never taken.
PlayerNeverBelowGround ==
    program = "platformer" =>
        /\ player.y >= 0
        /\ player.y = 0 =>
              player.vy = 0 /\ (player.on_ground \/ player = PlayerFresh)
        /\ respawns = 0

\* C10 witness: the first update, with time having passed, would have taken
\* the player below 0 and has put it on the ground.
PlayerNeverBelowGroundWitness ==
    /\ program = "platformer"
    /\ pc = "render"
    /\ iteration = 1
    /\ delta_time > 0
    /\ player.y = 0
    /\ player.on_ground

=============================================================================
